---- MODULE Spec2Model ----
(***************************************************************************)
(* Model of the codemux terminal client core:                              *)
(*   - the reconnecting WebSocket transport                                *)
(*     (expo-app/src/hooks/useWebSocketWithReconnect.ts), and              *)
(*   - the terminal grid store (app/src/stores/terminalStore.ts) fed by    *)
(*     the Terminal component's message handler.                           *)
(* Spec        : the transport state machine.                              *)
(* BackoffSpec : the transport under the backoff example's configuration.  *)
(* GridSpec    : the grid store under sequences of server messages.        *)
(* StoreSpec   : GridSpec with shrinking sizes and clearCells.             *)
(* MessageSpec : the transport receiving the frames of the server.         *)
(* InputSpec   : the transport with text submitted by the user.            *)
(* ColorSpec   : resolveColor applied to colour descriptors.               *)
(* RenderSpec  : the colours a terminal cell is drawn with.                *)
(* FairSpec    : Spec with timers firing and socket events delivered.      *)
(***************************************************************************)
EXTENDS Integers, Sequences, FiniteSets, TLC

VARIABLES
    \* ---- transport: configuration and refs (useWebSocketWithReconnect) ----
    cfg,                  \* destructured config (maxReconnectAttempts, baseDelay, maxDelay, backoffFactor)
    readyState,           \* readyState of the WebSocket object in each slot ("NONE": no object)
    opened,               \* per socket: number of times its open event was handled (onOpen invocations)
    wire,                 \* per socket: frames handed to socket.send(), in order
    socketRef,            \* socketRef.current (0 = null)
    reconnectTimeoutRef,  \* reconnectTimeoutRef.current: position in timers of the timer it
                          \* names (0 = null, or the handle of a timer that has fired)
    countdownIntervalRef, \* countdownIntervalRef.current: position in intervals (0 = null)
    shouldReconnectRef,   \* shouldReconnectRef.current
    reconnectAttemptRef,  \* reconnectAttemptRef.current
    timers,               \* delays of the pending setTimeout callbacks, in scheduling order
    intervals,            \* remainingTime of the pending setInterval callbacks, in creation order
    \* ---- transport: published React state (WebSocketState) ----
    stateSocket,          \* state.socket (0 = null)
    isConnected,
    isReconnecting,
    reconnectAttempt,
    nextReconnectIn,
    error,                \* state.error # null
    \* ---- transport: observation of calls made by the hook's user ----
    closeCalled,          \* close() has been called and reconnect() has not been called since
    nextFrame,            \* identity of the next frame passed to send()
    dropped,              \* frames passed to send() that took the warning branch
    lastCloseCode,        \* event.code of the last close event handled since the last
                          \* call of close() or reconnect() (0: none)
    \* ---- grid store (useTerminalStore) ----
    size,
    cells,
    cursor,
    cursor_visible,
    \* ---- grid: protocol-level ground truth and observation ----
    snap,                 \* the server-side snapshot implied by the messages applied so far
    \* ---- inbound frames (socket.onmessage -> handleWebSocketMessage) ----
    inbox,                \* the frames the server sends, in order
    delivered,            \* how many of them have been handed to onmessage
    \* ---- user input (handleInputSubmit) ----
    submitted,            \* the texts passed to handleInputSubmit so far
    \* ---- colour resolution (resolveColor) ----
    color,                \* the colour descriptor passed to resolveColor
    resolved,             \* the value it returned (<<"none">>: not called yet)
    \* ---- cell rendering (TerminalCell) ----
    drawn,                \* the cell the component draws
    rendered              \* its style (NotRendered: not drawn yet)

tvars == <<cfg, readyState, opened, wire, socketRef, reconnectTimeoutRef,
           countdownIntervalRef, shouldReconnectRef, reconnectAttemptRef,
           timers, intervals, stateSocket, isConnected, isReconnecting,
           reconnectAttempt, nextReconnectIn, error, closeCalled, nextFrame,
           dropped, lastCloseCode>>

gvars == <<size, cells, cursor, cursor_visible, snap>>

ivars == <<inbox, delivered>>

uvars == <<submitted>>

cvars == <<color, resolved>>

rvars == <<drawn, rendered>>

vars == <<tvars, gvars, ivars, uvars, cvars, rvars>>

(***************************************************************************)
(* Bounds                                                                  *)
(***************************************************************************)
MaxSockets == 2     \* WebSocket objects that exist at the same time
MaxFrames == 1      \* frames the user passes to send() in one run
MaxOverrun == 0     \* ticks a countdown interval may run below zero
MaxTimers == 2      \* reconnect timers (and countdown intervals) pending at the same time
MaxCells == 2       \* entries in the cell list of one grid update
MaxInbound == 2     \* frames the server sends in one run
MaxText == 2        \* characters of a submitted text
MaxSubmits == 1     \* texts submitted in one run

(***************************************************************************)
(* Transport                                                               *)
(***************************************************************************)
\* the close code onclose compares event.code with
CLEAN_CLOSE == 1000
\* a representative of the codes onclose treats as not clean (abnormal closure)
ABNORMAL_CLOSE == 1006
\* the factor of Math.random() in calculateDelay
JITTER_RANGE == 1000

\* event.code of a CloseEvent: clean, or any other code.
CloseCodes == {CLEAN_CLOSE, ABNORMAL_CLOSE}

\* Math.random() * 1000 lies in [0, 1000); extremes as representatives.
JitterValues == {0, JITTER_RANGE - 1}

\* The configuration of the backoff example, and a one-attempt configuration
\* whose cap equals its base delay.
BackoffConfig == [maxReconnectAttempts |-> 3, baseDelay |-> 1000,
                  maxDelay |-> 5000, backoffFactor |-> 2]
SingleConfig == [maxReconnectAttempts |-> 1, baseDelay |-> 1000,
                 maxDelay |-> 1000, backoffFactor |-> 2]
PairConfig == [maxReconnectAttempts |-> 2, baseDelay |-> 1000,
               maxDelay |-> 1000, backoffFactor |-> 2]
Configs == {SingleConfig, PairConfig}

RECURSIVE Pow(_, _)
Pow(b, e) == IF e = 0 THEN 1 ELSE b * Pow(b, e - 1)

Min(a, b) == IF a < b THEN a ELSE b

\* Math.round(x / 1000) for a non-negative integer x
RoundSeconds(x) == (x + 500) \div 1000

calculateDelayNoExponent(attempt, jitter) ==
    Min(cfg.baseDelay * cfg.backoffFactor * attempt, cfg.maxDelay) + jitter

\* calculateDelay(attempt), with the value of Math.random()*1000 as a parameter
calculateDelay(attempt, jitter) ==
    Min(cfg.baseDelay * Pow(cfg.backoffFactor, attempt), cfg.maxDelay) + jitter

\* A slot holds one WebSocket object from its construction until it is
\* closed and no longer held in socketRef; then the slot is reused.
Sockets == 1..MaxSockets

Live == {"CONNECTING", "OPEN", "CLOSING"}

\* WebSocket.close() on socket s (0: no socket): a connecting or open socket
\* starts closing; on a closing or closed socket the call has no effect.
SocketClosed(rs, s) ==
    IF s # 0 /\ rs[s] \in {"CONNECTING", "OPEN"}
    THEN [rs EXCEPT ![s] = "CLOSING"]
    ELSE rs

\* socketRef.current = null: a closed socket that is no longer held is gone
Released(rs, s) ==
    IF s # 0 /\ rs[s] = "CLOSED" THEN [rs EXCEPT ![s] = "NONE"] ELSE rs

\* per-socket observations of the objects that still exist
Forgotten(f, rs, blank) == [s \in Sockets |-> IF rs[s] = "NONE" THEN blank ELSE f[s]]

FreeSlots(rs) == {s \in Sockets : rs[s] = "NONE"}

NewSlot(rs) == CHOOSE s \in FreeSlots(rs) : \A o \in FreeSlots(rs) : s <= o

\* sequence q without its k-th element (q itself when k = 0)
Without(q, k) ==
    IF k = 0 THEN q
    ELSE [j \in 1..(Len(q) - 1) |-> IF j < k THEN q[j] ELSE q[j + 1]]

\* a position after the k-th element is removed
Shifted(ref, k) == IF ref = k THEN 0 ELSE IF ref > k /\ k # 0 THEN ref - 1 ELSE ref

\* pending timers after clearTimeout(ref); clearing a fired timer does nothing
TimersCleared(ts, ref) == Without(ts, ref)

\* pending intervals after clearInterval(ref)
IntervalsCleared(is, ref) == Without(is, ref)

sendGuardIgnoresReadyState(rs, ref) == ref # 0

\* the condition of send(): socketRef.current && readyState === OPEN
sendGuard(rs, ref) == ref # 0 /\ rs[ref] = "OPEN"

\* the wire after send(frame)
Sent(w, rs, ref, frame) ==
    IF sendGuard(rs, ref) THEN [w EXCEPT ![ref] = Append(@, frame)] ELSE w

RequestKeyframe == [type |-> "request_keyframe", n |-> 0]

onOpenSilent(w, rs, ref) == w

\* the Terminal component's onOpen callback: send(request_keyframe)
onOpen(w, rs, ref) == Sent(w, rs, ref, RequestKeyframe)
\* the n-th frame the Terminal component passes to send() (a key event)
InputFrame(n) == [type |-> "key", n |-> n]

shouldScheduleIgnoringFlag(code) ==
    /\ code # CLEAN_CLOSE
    /\ reconnectAttemptRef < cfg.maxReconnectAttempts

\* the condition under which onclose schedules a reconnection
shouldSchedule(code) ==
    /\ shouldReconnectRef
    /\ code # CLEAN_CLOSE
    /\ reconnectAttemptRef < cfg.maxReconnectAttempts

maxAttemptsNeverReached == FALSE

\* the condition of onclose's else-if branch ("Max reconnect attempts reached")
maxAttemptsReached == reconnectAttemptRef >= cfg.maxReconnectAttempts

\* the hook after mounting, for the configuration it was given
TInit ==
    \* the mount effect: shouldReconnectRef.current = true; createConnection()
    /\ readyState = [s \in Sockets |-> IF s = 1 THEN "CONNECTING" ELSE "NONE"]
    /\ opened = [s \in Sockets |-> 0]
    /\ wire = [s \in Sockets |-> <<>>]
    /\ socketRef = 1
    /\ reconnectTimeoutRef = 0
    /\ countdownIntervalRef = 0
    /\ shouldReconnectRef = TRUE
    /\ reconnectAttemptRef = 0
    /\ timers = <<>>
    /\ intervals = <<>>
    /\ stateSocket = 0
    /\ isConnected = FALSE
    /\ isReconnecting = FALSE
    /\ reconnectAttempt = 0
    /\ nextReconnectIn = 0
    /\ error = FALSE
    /\ closeCalled = FALSE
    /\ nextFrame = 1
    /\ dropped = {}
    /\ lastCloseCode = 0

createConnectionKeepsOld(rs) ==
    LET new == NewSlot(rs)
    IN /\ FreeSlots(rs) # {}
       /\ readyState' = [rs EXCEPT ![new] = "CONNECTING"]
       /\ opened' = [Forgotten(opened, rs, 0) EXCEPT ![new] = 0]
       /\ wire' = [Forgotten(wire, rs, <<>>) EXCEPT ![new] = <<>>]
       /\ socketRef' = new

\* createConnection(): close and drop the held socket, create a new one.
\* rs is the readyState vector at the time of the call.
createConnection(rs) ==
    LET old == Released(SocketClosed(rs, socketRef), socketRef)
        new == NewSlot(old)
    IN /\ FreeSlots(old) # {}
       /\ readyState' = [old EXCEPT ![new] = "CONNECTING"]
       /\ opened' = [Forgotten(opened, old, 0) EXCEPT ![new] = 0]
       /\ wire' = [Forgotten(wire, old, <<>>) EXCEPT ![new] = <<>>]
       /\ socketRef' = new

\* socket.onopen of socket s
SocketOpen(s) ==
    /\ readyState[s] = "CONNECTING"
    /\ readyState' = [readyState EXCEPT ![s] = "OPEN"]
    /\ reconnectAttemptRef' = 0
    \* clearReconnectTimer()
    /\ timers' = TimersCleared(timers, reconnectTimeoutRef)
    /\ reconnectTimeoutRef' = 0
    /\ intervals' = IntervalsCleared(intervals, countdownIntervalRef)
    /\ countdownIntervalRef' = 0
    /\ stateSocket' = s
    /\ isConnected' = TRUE
    /\ isReconnecting' = FALSE
    /\ reconnectAttempt' = 0
    /\ nextReconnectIn' = 0
    /\ error' = FALSE
    \* callbacksRef.current.onOpen(): Terminal sends request_keyframe
    /\ opened' = [opened EXCEPT ![s] = @ + 1]
    /\ wire' = onOpen(wire, readyState', socketRef)
    /\ UNCHANGED <<cfg, socketRef, shouldReconnectRef, closeCalled, nextFrame,
                   dropped, lastCloseCode>>
    /\ UNCHANGED <<gvars, ivars, uvars, cvars, rvars>>

\* socket.onclose of socket s with event.code = code
SocketClose(s, code, jitter) ==
    /\ readyState[s] \in Live
    \* a connection that was never established fails: its close is not clean
    /\ opened[s] = 0 => code # CLEAN_CLOSE
    /\ readyState' = [readyState EXCEPT ![s] = IF s = socketRef THEN "CLOSED" ELSE "NONE"]
    /\ stateSocket' = 0
    /\ isConnected' = FALSE
    /\ shouldSchedule(code) =>
           Len(timers) < MaxTimers /\ Len(intervals) < MaxTimers
    /\ IF shouldSchedule(code)
       THEN LET attempt == reconnectAttemptRef
                delay == calculateDelay(attempt, jitter)
            IN /\ reconnectAttemptRef' = reconnectAttemptRef + 1
               /\ isReconnecting' = TRUE
               /\ reconnectAttempt' = attempt + 1
               /\ nextReconnectIn' = RoundSeconds(delay)
               /\ intervals' = Append(intervals, RoundSeconds(delay))
               /\ countdownIntervalRef' = Len(intervals) + 1
               /\ timers' = Append(timers, delay)
               /\ reconnectTimeoutRef' = Len(timers) + 1
       ELSE /\ IF maxAttemptsReached
               THEN isReconnecting' = FALSE /\ nextReconnectIn' = 0
               ELSE UNCHANGED <<isReconnecting, nextReconnectIn>>
            /\ UNCHANGED <<reconnectAttemptRef, reconnectAttempt, intervals,
                           countdownIntervalRef, timers, reconnectTimeoutRef>>
    \* an object that is gone leaves nothing behind
    /\ opened' = [opened EXCEPT ![s] = IF s = socketRef THEN @ ELSE 0]
    /\ wire' = [wire EXCEPT ![s] = IF s = socketRef THEN @ ELSE <<>>]
    /\ lastCloseCode' = code
    /\ UNCHANGED <<cfg, socketRef, shouldReconnectRef, error,
                   closeCalled, nextFrame, dropped>>
    /\ UNCHANGED <<gvars, ivars, uvars, cvars, rvars>>

SocketErrorSchedules(s) ==
    /\ readyState[s] \in Live
    /\ reconnectAttemptRef < cfg.maxReconnectAttempts
    /\ Len(timers) < MaxTimers
    /\ error' = TRUE
    /\ reconnectAttemptRef' = reconnectAttemptRef + 1
    /\ timers' = Append(timers, cfg.baseDelay)
    /\ reconnectTimeoutRef' = Len(timers) + 1
    /\ UNCHANGED <<cfg, readyState, opened, wire, socketRef,
                   countdownIntervalRef, shouldReconnectRef,
                   intervals, stateSocket, isConnected, isReconnecting,
                   reconnectAttempt, nextReconnectIn, closeCalled, nextFrame, dropped,
                   lastCloseCode>>
    /\ UNCHANGED <<gvars, ivars, uvars, cvars, rvars>>

\* socket.onerror of socket s
SocketError(s) ==
    /\ readyState[s] \in Live
    /\ error' = TRUE
    /\ UNCHANGED <<cfg, readyState, opened, wire, socketRef, reconnectTimeoutRef,
                   countdownIntervalRef, shouldReconnectRef, reconnectAttemptRef,
                   timers, intervals, stateSocket, isConnected, isReconnecting,
                   reconnectAttempt, nextReconnectIn, closeCalled, nextFrame, dropped,
                   lastCloseCode>>
    /\ UNCHANGED <<gvars, ivars, uvars, cvars, rvars>>

\* A timer scheduled earlier with a delay that is not longer fires first.
MayFire(k) == \A j \in 1..(k - 1) : timers[j] > timers[k]

\* the setTimeout callback of the k-th pending timer
TimerFire(k) ==
    /\ k \in 1..Len(timers)
    /\ MayFire(k)
    /\ timers' = Without(timers, k)
    /\ reconnectTimeoutRef' = Shifted(reconnectTimeoutRef, k)
    /\ intervals' = IntervalsCleared(intervals, countdownIntervalRef)
    /\ countdownIntervalRef' = 0
    /\ IF shouldReconnectRef
       THEN createConnection(readyState)
       ELSE UNCHANGED <<readyState, opened, wire, socketRef>>
    /\ UNCHANGED <<cfg, shouldReconnectRef, reconnectAttemptRef,
                   stateSocket, isConnected, isReconnecting, reconnectAttempt,
                   nextReconnectIn, error, closeCalled, nextFrame, dropped,
                   lastCloseCode>>
    /\ UNCHANGED <<gvars, ivars, uvars, cvars, rvars>>

\* the setInterval callback of countdown interval i
CountdownTick(i) ==
    /\ i \in 1..Len(intervals)
    /\ intervals[i] > 0 - MaxOverrun
    /\ LET remainingTime == intervals[i] - 1
           ticked == [intervals EXCEPT ![i] = remainingTime]
       IN /\ nextReconnectIn' = remainingTime
          /\ IF remainingTime <= 0 /\ countdownIntervalRef # 0
             THEN /\ intervals' = IntervalsCleared(ticked, countdownIntervalRef)
                  /\ countdownIntervalRef' = 0
             ELSE /\ intervals' = ticked
                  /\ UNCHANGED countdownIntervalRef
    /\ UNCHANGED <<cfg, readyState, opened, wire, socketRef, reconnectTimeoutRef,
                   shouldReconnectRef, reconnectAttemptRef, timers, stateSocket,
                   isConnected, isReconnecting, reconnectAttempt, error,
                   closeCalled, nextFrame, dropped, lastCloseCode>>
    /\ UNCHANGED <<gvars, ivars, uvars, cvars, rvars>>

\* send(data) called by the user of the hook
Send ==
    /\ nextFrame <= MaxFrames
    /\ wire' = Sent(wire, readyState, socketRef, InputFrame(nextFrame))
    /\ dropped' = IF sendGuard(readyState, socketRef) THEN dropped
                  ELSE dropped \cup {nextFrame}
    /\ nextFrame' = nextFrame + 1
    /\ UNCHANGED <<cfg, readyState, opened, socketRef, reconnectTimeoutRef,
                   countdownIntervalRef, shouldReconnectRef, reconnectAttemptRef,
                   timers, intervals, stateSocket, isConnected, isReconnecting,
                   reconnectAttempt, nextReconnectIn, error, closeCalled,
                   lastCloseCode>>
    /\ UNCHANGED <<gvars, ivars, uvars, cvars, rvars>>

\* close()
Close ==
    /\ shouldReconnectRef' = FALSE
    /\ timers' = TimersCleared(timers, reconnectTimeoutRef)
    /\ reconnectTimeoutRef' = 0
    /\ intervals' = IntervalsCleared(intervals, countdownIntervalRef)
    /\ countdownIntervalRef' = 0
    /\ readyState' = Released(SocketClosed(readyState, socketRef), socketRef)
    /\ socketRef' = 0
    /\ stateSocket' = 0
    /\ isConnected' = FALSE
    /\ isReconnecting' = FALSE
    /\ reconnectAttempt' = 0
    /\ nextReconnectIn' = 0
    /\ closeCalled' = TRUE
    /\ lastCloseCode' = 0
    /\ opened' = Forgotten(opened, readyState', 0)
    /\ wire' = Forgotten(wire, readyState', <<>>)
    /\ UNCHANGED <<cfg, reconnectAttemptRef, error, nextFrame, dropped>>
    /\ UNCHANGED <<gvars, ivars, uvars, cvars, rvars>>

\* reconnect()
Reconnect ==
    /\ reconnectAttemptRef' = 0
    /\ shouldReconnectRef' = TRUE
    /\ timers' = TimersCleared(timers, reconnectTimeoutRef)
    /\ reconnectTimeoutRef' = 0
    /\ intervals' = IntervalsCleared(intervals, countdownIntervalRef)
    /\ countdownIntervalRef' = 0
    /\ isReconnecting' = FALSE
    /\ reconnectAttempt' = 0
    /\ nextReconnectIn' = 0
    /\ createConnection(SocketClosed(readyState, socketRef))
    /\ closeCalled' = FALSE
    /\ lastCloseCode' = 0
    /\ UNCHANGED <<cfg, stateSocket, isConnected, error, nextFrame, dropped>>
    /\ UNCHANGED <<gvars, ivars, uvars, cvars, rvars>>

TNext ==
    \/ \E s \in Sockets : SocketOpen(s)
    \/ \E s \in Sockets, code \in CloseCodes, jitter \in JitterValues :
           SocketClose(s, code, jitter)
    \/ \E s \in Sockets : SocketError(s)
    \/ \E k \in 1..Len(timers) : TimerFire(k)
    \/ \E i \in 1..Len(intervals) : CountdownTick(i)
    \/ Send
    \/ Close
    \/ Reconnect

(***************************************************************************)
(* Grid store                                                              *)
(***************************************************************************)
\* Cell coordinates that messages mention; the map key `${row}-${col}` is
\* modelled by the pair <<row, col>>.
Coords == {<<0, 0>>, <<0, 1>>, <<1, 1>>}

InitialSize == [rows |-> 24, cols |-> 80]
Sizes == {InitialSize, [rows |-> 2, cols |-> 2]}

\* Wire cells: every field optional.
PartialCells == {<<>>, [char |-> "a"]}

\* cell.field ?? default
Field(partial, name, default) ==
    IF name \in DOMAIN partial THEN partial[name] ELSE default

\* handleGridUpdate's fullCell; has_cursor is left undefined, which reads as false
reconstructGridCell(partial) ==
    [char |-> Field(partial, "char", " "),
     fg_color |-> Field(partial, "fg_color", "null"),
     bg_color |-> Field(partial, "bg_color", "null"),
     bold |-> Field(partial, "bold", FALSE),
     italic |-> Field(partial, "italic", FALSE),
     underline |-> Field(partial, "underline", FALSE),
     reverse |-> Field(partial, "reverse", FALSE),
     has_cursor |-> FALSE]

\* the literal cell the cursor step falls back to
DefaultCell == reconstructGridCell(<<>>)

\* Map.set(key, value)
MapSet(map, key, value) ==
    [k \in DOMAIN map \cup {key} |-> IF k = key THEN value ELSE map[k]]

EmptyMap == [k \in {} |-> DefaultCell]

RECURSIVE ApplyCellsMerging(_, _)
ApplyCellsMerging(map, list) ==
    IF list = <<>> THEN map
    ELSE LET key == <<list[1][1], list[1][2]>>
             old == IF key \in DOMAIN map THEN map[key] ELSE DefaultCell
             merged == [f \in DOMAIN old |-> Field(list[1][3], f, old[f])]
         IN ApplyCellsMerging(MapSet(map, key, merged), Tail(list))

\* message.cells.forEach(([row, col, cell]) => newCells.set(key, fullCell))
RECURSIVE ApplyCells(_, _)
ApplyCells(map, list) ==
    IF list = <<>> THEN map
    ELSE ApplyCells(MapSet(map, <<list[1][1], list[1][2]>>,
                           reconstructGridCell(list[1][3])),
                    Tail(list))

Store == [size |-> size, cells |-> cells, cursor |-> cursor,
          cursor_visible |-> cursor_visible]

InitialStore == [size |-> InitialSize, cells |-> EmptyMap,
                 cursor |-> <<0, 0>>, cursor_visible |-> TRUE]

\* the cursor step of handleGridUpdate on the working map
CursorStep(st, m, map) ==
    LET old == st.cursor
        cleared == IF old \in DOMAIN map /\ map[old].has_cursor
                   THEN MapSet(map, old, [map[old] EXCEPT !.has_cursor = FALSE])
                   ELSE map
        newCursorCell == IF m.cursor \in DOMAIN cleared THEN cleared[m.cursor]
                         ELSE DefaultCell
        cursorVisible == Field(m, "cursor_visible", st.cursor_visible)
    IN IF cursorVisible
       THEN MapSet(cleared, m.cursor, [newCursorCell EXCEPT !.has_cursor = TRUE])
       ELSE cleared

\* the visibility step of handleGridUpdate on the working map
VisibilityStep(st, m, map) ==
    LET cursorKey == st.cursor
    IN IF cursorKey \in DOMAIN map
       THEN MapSet(map, cursorKey, [map[cursorKey] EXCEPT !.has_cursor = m.cursor_visible])
       ELSE map

\* handleGridUpdate(message) on store st: the store after set(...)
handleGridUpdate(st, m) ==
    LET sizeDiffers == "size" \in DOMAIN m /\ m.size # st.size
        hasCells == "cells" \in DOMAIN m /\ Len(m.cells) > 0
        cursorDiffers == "cursor" \in DOMAIN m /\ m.cursor # st.cursor
        visibleDiffers == "cursor_visible" \in DOMAIN m
                          /\ m.cursor_visible # st.cursor_visible
        cells1 == IF hasCells THEN ApplyCells(st.cells, m.cells) ELSE st.cells
        cells2 == IF cursorDiffers THEN CursorStep(st, m, cells1) ELSE cells1
        cells3 == IF visibleDiffers THEN VisibilityStep(st, m, cells2) ELSE cells2
    IN [size |-> IF sizeDiffers THEN m.size ELSE st.size,
        cells |-> cells3,
        cursor |-> IF cursorDiffers THEN m.cursor ELSE st.cursor,
        cursor_visible |-> IF visibleDiffers THEN m.cursor_visible
                           ELSE st.cursor_visible]

\* handleGridUpdate's hasChanges: the update returned to set() is not empty
hasChanges(st, m) ==
    \/ "size" \in DOMAIN m /\ m.size # st.size
    \/ "cells" \in DOMAIN m /\ Len(m.cells) > 0
    \/ "cursor" \in DOMAIN m /\ m.cursor # st.cursor
    \/ "cursor_visible" \in DOMAIN m /\ m.cursor_visible # st.cursor_visible

updateSizePruning(st, rows, cols) ==
    [st EXCEPT !.size = [rows |-> rows, cols |-> cols],
               !.cells = [k \in {c \in DOMAIN st.cells : c[1] < rows /\ c[2] < cols}
                             |-> st.cells[k]]]

updateSizeClearing(st, rows, cols) ==
    [st EXCEPT !.size = [rows |-> rows, cols |-> cols], !.cells = EmptyMap]

\* updateSize(rows, cols)
updateSize(st, rows, cols) == [st EXCEPT !.size = [rows |-> rows, cols |-> cols]]

\* sequences of at most n elements of S
SeqUpTo(S, n) == UNION {[1..k -> S] : k \in 0..n}

CellEntries == {<<c[1], c[2], p>> : c \in Coords, p \in PartialCells}

\* handleWebSocketMessage's transformedMessage for a Keyframe
KeyframeMessages ==
    [size : Sizes, cells : SeqUpTo(CellEntries, MaxCells), cursor : Coords,
     cursor_visible : BOOLEAN]

\* handleWebSocketMessage's transformedMessage for a Diff: the cursor may be
\* null and cursor_visible may be missing
DiffMessages ==
    UNION {[cells : SeqUpTo(CellEntries, MaxCells), cursor : Coords, cursor_visible : BOOLEAN],
           [cells : SeqUpTo(CellEntries, MaxCells), cursor : Coords],
           [cells : SeqUpTo(CellEntries, MaxCells), cursor_visible : BOOLEAN],
           [cells : SeqUpTo(CellEntries, MaxCells)]}

\* optimizeGridCell(cell): the wire form of a cell, defaults omitted
optimizeGridCell(cell) ==
    LET kept == {f \in {"char", "fg_color", "bg_color", "bold", "italic",
                        "underline", "reverse"} : cell[f] # DefaultCell[f]}
    IN [f \in kept |-> cell[f]]

\* the elements of a finite set, one by one
RECURSIVE SetToSeq(_)
SetToSeq(S) ==
    IF S = {} THEN <<>>
    ELSE LET x == CHOOSE y \in S : TRUE IN <<x>> \o SetToSeq(S \ {x})

\* The snapshot the server holds according to the protocol: a Keyframe sets
\* it, a Diff replaces whole cells in it and moves the cursor.  It is kept
\* while the store received a Keyframe first and then only Diffs whose cells
\* and cursor stay on the coordinates the Keyframe established.
NoSnap == [valid |-> FALSE, size |-> InitialSize, cells |-> EmptyMap,
           cursor |-> <<0, 0>>, cursor_visible |-> TRUE]

Touched(list) == {<<list[i][1], list[i][2]>> : i \in 1..Len(list)}

SnapAfterKeyframe(m) ==
    IF Store = InitialStore /\ m.cursor \in Touched(m.cells)
    THEN [valid |-> TRUE, size |-> m.size, cells |-> ApplyCells(EmptyMap, m.cells),
          cursor |-> m.cursor, cursor_visible |-> m.cursor_visible]
    ELSE NoSnap

SnapAfterDiff(m) ==
    IF /\ snap.valid
       /\ Touched(m.cells) \subseteq DOMAIN snap.cells
       /\ "cursor" \in DOMAIN m => m.cursor \in DOMAIN snap.cells
    THEN [snap EXCEPT !.cells = ApplyCells(snap.cells, m.cells),
                      !.cursor = Field(m, "cursor", snap.cursor),
                      !.cursor_visible = Field(m, "cursor_visible", snap.cursor_visible)]
    ELSE NoSnap

\* the snapshot as one Keyframe message
KeyframeOf(sn) ==
    LET keys == SetToSeq(DOMAIN sn.cells)
    IN [size |-> sn.size,
        cells |-> [i \in 1..Len(keys) |->
                      <<keys[i][1], keys[i][2], optimizeGridCell(sn.cells[keys[i]])>>],
        cursor |-> sn.cursor,
        cursor_visible |-> sn.cursor_visible]

\* cells.get(key), an absent key read as the blank default cell
CellAt(map, key) == IF key \in DOMAIN map THEN map[key] ELSE DefaultCell

GInit ==
    /\ size = InitialStore.size
    /\ cells = InitialStore.cells
    /\ cursor = InitialStore.cursor
    /\ cursor_visible = InitialStore.cursor_visible
    /\ snap = NoSnap

Stored(st) ==
    /\ size' = st.size
    /\ cells' = st.cells
    /\ cursor' = st.cursor
    /\ cursor_visible' = st.cursor_visible

\* a grid_update frame carrying a Keyframe is delivered
Keyframe(m) ==
    /\ Stored(handleGridUpdate(Store, m))
    /\ snap' = SnapAfterKeyframe(m)
    /\ UNCHANGED <<tvars, ivars, uvars, cvars, rvars>>

\* a grid_update frame carrying a Diff is delivered
Diff(m) ==
    /\ Stored(handleGridUpdate(Store, m))
    /\ snap' = SnapAfterDiff(m)
    /\ UNCHANGED <<tvars, ivars, uvars, cvars, rvars>>

\* a pty_size frame is delivered
PtySize(sz) ==
    /\ Stored(updateSize(Store, sz.rows, sz.cols))
    /\ snap' = NoSnap
    /\ UNCHANGED <<tvars, ivars, uvars, cvars, rvars>>

GNext ==
    \/ \E m \in KeyframeMessages : Keyframe(m)
    \/ \E m \in DiffMessages : Diff(m)
    \/ \E sz \in Sizes : PtySize(sz)

\* a size that leaves stored cells outside the grid
SmallSize == [rows |-> 1, cols |-> 1]

\* clearCells() on store st
clearCells(st) == [st EXCEPT !.cells = EmptyMap]

\* clearCells() called by a user of the store
ClearCells ==
    /\ Stored(clearCells(Store))
    /\ snap' = NoSnap
    /\ UNCHANGED <<tvars, ivars, uvars, cvars, rvars>>

\* the grid store with shrinking sizes and clearCells
SNext ==
    \/ \E m \in KeyframeMessages : Keyframe(m)
    \/ \E m \in DiffMessages : Diff(m)
    \/ \E sz \in Sizes \cup {SmallSize} : PtySize(sz)
    \/ ClearCells

(***************************************************************************)
(* Inbound frames                                                          *)
(***************************************************************************)
\* a frame whose text JSON.parse rejects
Malformed == [type |-> "malformed"]

\* ServerMessage frames as they arrive: the Keyframe and Diff payloads in
\* their wire form (a Diff lists its cells as changes; its cursor may be null)
KeyframeFrame(k) == [type |-> "grid_update", Keyframe |-> k]
DiffFrame(d) == [type |-> "grid_update", Diff |-> d]
PtySizeFrame(sz) == [type |-> "pty_size", rows |-> sz.rows, cols |-> sz.cols]

SampleKeyframe ==
    [size |-> [rows |-> 2, cols |-> 2],
     cells |-> << <<0, 0, [char |-> "a"]>> >>,
     cursor |-> <<0, 1>>, cursor_visible |-> TRUE]

SampleDiff == [changes |-> << <<0, 1, <<>> >> >>, cursor |-> "null"]

InboundFrames ==
    {Malformed, KeyframeFrame(SampleKeyframe), DiffFrame(SampleDiff),
     PtySizeFrame([rows |-> 2, cols |-> 2])}

\* transformedMessage of the Keyframe branch
transformKeyframe(k) ==
    [size |-> k.size, cells |-> k.cells, cursor |-> k.cursor,
     cursor_visible |-> k.cursor_visible]

\* transformedMessage of the Diff branch; an undefined field is left out
transformDiff(d) ==
    LET present == {"cells"}
                   \cup (IF d.cursor # "null" THEN {"cursor"} ELSE {})
                   \cup (IF "cursor_visible" \in DOMAIN d THEN {"cursor_visible"} ELSE {})
    IN [f \in present |-> IF f = "cells" THEN d.changes ELSE d[f]]

handleWebSocketMessageResets(st, frame) ==
    IF frame.type = "malformed" THEN InitialStore
    ELSE IF frame.type = "grid_update"
    THEN IF "Keyframe" \in DOMAIN frame
         THEN handleGridUpdate(st, transformKeyframe(frame.Keyframe))
         ELSE handleGridUpdate(st, transformDiff(frame.Diff))
    ELSE updateSize(st, frame.rows, frame.cols)

\* handleWebSocketMessage(event) on store st: the store afterwards; a frame
\* that fails JSON.parse lands in the catch branch
handleWebSocketMessage(st, frame) ==
    IF frame.type = "malformed" THEN st
    ELSE IF frame.type = "grid_update"
    THEN IF "Keyframe" \in DOMAIN frame
         THEN handleGridUpdate(st, transformKeyframe(frame.Keyframe))
         ELSE IF "Diff" \in DOMAIN frame
         THEN handleGridUpdate(st, transformDiff(frame.Diff))
         ELSE st
    ELSE IF frame.type = "pty_size"
    THEN updateSize(st, frame.rows, frame.cols)
    ELSE st

\* the snapshot the server holds after sending the frame
SnapAfterFrame(frame) ==
    IF frame.type = "malformed" THEN snap
    ELSE IF frame.type = "grid_update" /\ "Keyframe" \in DOMAIN frame
    THEN SnapAfterKeyframe(transformKeyframe(frame.Keyframe))
    ELSE IF frame.type = "grid_update" /\ "Diff" \in DOMAIN frame
    THEN SnapAfterDiff(transformDiff(frame.Diff))
    ELSE NoSnap

\* socket.onmessage of socket s: the next frame of the server arrives on a
\* socket that has opened and has not closed yet
SocketMessage(s) ==
    /\ delivered < Len(inbox)
    /\ opened[s] >= 1
    /\ readyState[s] \in {"OPEN", "CLOSING"}
    /\ Stored(handleWebSocketMessage(Store, inbox[delivered + 1]))
    /\ snap' = SnapAfterFrame(inbox[delivered + 1])
    /\ delivered' = delivered + 1
    /\ UNCHANGED <<inbox, tvars, uvars, cvars, rvars>>

MNext ==
    \/ TNext
    \/ \E s \in Sockets : SocketMessage(s)

(***************************************************************************)
(* Text input                                                              *)
(***************************************************************************)
\* the characters of submitted text
Chars == {"a", " "}

\* the texts typed into the input field
Texts == SeqUpTo(Chars, MaxText)

\* key codes of a key event: { Char: c } and "Enter"
CharKey(c) == <<"Char", c>>
EnterKey == <<"Enter">>

NoModifiers == [shift |-> FALSE, ctrl |-> FALSE, alt |-> FALSE, meta |-> FALSE]

\* sendKeyEvent(keyEvent): send({type: "key", code, modifiers})
sendKeyEvent(w, rs, ref, keyEvent) ==
    Sent(w, rs, ref, [type |-> "key", code |-> keyEvent.code,
                      modifiers |-> keyEvent.modifiers])

\* for (const char of text) sendKeyEvent({code: {Char: char}, ...})
RECURSIVE SendChars(_, _, _, _)
SendChars(w, rs, ref, text) ==
    IF text = <<>> THEN w
    ELSE SendChars(sendKeyEvent(w, rs, ref, [code |-> CharKey(Head(text)),
                                             modifiers |-> NoModifiers]),
                   rs, ref, Tail(text))

handleInputSubmitNoEnter(w, rs, ref, text) == SendChars(w, rs, ref, text)

\* handleInputSubmit(text): the wire after the call
handleInputSubmit(w, rs, ref, text) ==
    sendKeyEvent(SendChars(w, rs, ref, text), rs, ref,
                 [code |-> EnterKey, modifiers |-> NoModifiers])

\* inputValue.trim() is not empty
Submittable(text) == \E i \in 1..Len(text) : text[i] # " "

\* TerminalInput's handleSubmit with text in the field
InputSubmit(text) ==
    /\ Len(submitted) < MaxSubmits
    /\ Submittable(text)
    /\ wire' = handleInputSubmit(wire, readyState, socketRef, text)
    /\ submitted' = Append(submitted, text)
    /\ UNCHANGED <<cfg, readyState, opened, socketRef, reconnectTimeoutRef,
                   countdownIntervalRef, shouldReconnectRef, reconnectAttemptRef,
                   timers, intervals, stateSocket, isConnected, isReconnecting,
                   reconnectAttempt, nextReconnectIn, error, closeCalled,
                   nextFrame, dropped, lastCloseCode>>
    /\ UNCHANGED <<gvars, ivars, cvars, rvars>>

INext ==
    \/ TNext
    \/ \E text \in Texts : InputSubmit(text)

(***************************************************************************)
(* Colours                                                                 *)
(***************************************************************************)
\* the number of colours of a theme
ThemeSize == 16

\* the indexes of the 8-bit palette
PaletteIndexes == 0..255

\* colour descriptors of a cell
NoColor == [variant |-> "null"]
Default == [variant |-> "Default"]
Indexed(n) == [variant |-> "Indexed", index |-> n]
Palette(n) == [variant |-> "Palette", index |-> n]
RgbColor(r, g, b) == [variant |-> "Rgb", r |-> r, g |-> g, b |-> b]

\* the values resolveColor returns: a colour of the theme, or the text
\* rgb(r, g, b) made of three numbers
ThemeForeground == <<"foreground">>
ThemeBackground == <<"background">>
ThemeColor(i) == <<"theme", i>>
rgb(r, g, b) == <<"rgb", r, g, b>>
NotResolved == <<"none">>

resolveColorRamp24(c, isBackground) ==
    LET fallback == IF isBackground THEN ThemeBackground ELSE ThemeForeground
    IN CASE c.variant = "Indexed" ->
                IF c.index >= 0 /\ c.index < ThemeSize THEN ThemeColor(c.index) ELSE fallback
         [] c.variant = "Palette" ->
                IF c.index < 16
                THEN IF c.index >= 0 THEN ThemeColor(c.index) ELSE fallback
                ELSE IF c.index < 232
                THEN LET n == c.index - 16
                     IN rgb((n \div 36) * 51, ((n % 36) \div 6) * 51, (n % 6) * 51)
                ELSE LET level == ((c.index - 232) * 255) \div 24
                     IN rgb(level, level, level)
         [] c.variant = "Rgb" -> rgb(c.r, c.g, c.b)
         [] OTHER -> fallback

\* resolveColor(color, isBackground) under a theme of ThemeSize colours
resolveColor(c, isBackground) ==
    LET fallback == IF isBackground THEN ThemeBackground ELSE ThemeForeground
    IN CASE c.variant = "Indexed" ->
                IF c.index >= 0 /\ c.index < ThemeSize THEN ThemeColor(c.index) ELSE fallback
         [] c.variant = "Palette" ->
                IF c.index < 16
                \* state.theme.colors[index] || fallback
                THEN IF c.index >= 0 THEN ThemeColor(c.index) ELSE fallback
                ELSE IF c.index < 232
                THEN LET n == c.index - 16
                     IN rgb((n \div 36) * 51, ((n % 36) \div 6) * 51, (n % 6) * 51)
                ELSE LET level == ((c.index - 232) * 255) \div 23
                     IN rgb(level, level, level)
         [] c.variant = "Rgb" -> rgb(c.r, c.g, c.b)
         [] OTHER -> fallback

\* the descriptors a cell can carry
Colors ==
    {NoColor, Default, RgbColor(1, 2, 3)}
        \cup {Indexed(n) : n \in 0..ThemeSize}
        \cup {Palette(n) : n \in PaletteIndexes}

\* a cell is drawn: resolveColor(cell.fg_color, false) or
\* resolveColor(cell.bg_color, true)
ResolveColor(isBackground) ==
    /\ resolved' = resolveColor(color, isBackground)
    /\ UNCHANGED <<color, tvars, gvars, ivars, uvars, rvars>>

CNext == \E isBackground \in BOOLEAN : ResolveColor(isBackground)

(***************************************************************************)
(* Cell rendering                                                          *)
(***************************************************************************)
\* theme.cursor
ThemeCursor == <<"cursor">>

NotRendered == [color |-> <<"none">>, backgroundColor |-> <<"none">>]

getForegroundColorSwapsDescriptors(cell) ==
    IF cell.reverse THEN resolveColor(cell.bg_color, FALSE)
    ELSE resolveColor(cell.fg_color, FALSE)

\* TerminalCell's getForegroundColor()
getForegroundColor(cell) ==
    IF cell.reverse THEN resolveColor(cell.bg_color, TRUE)
    ELSE resolveColor(cell.fg_color, FALSE)

\* TerminalCell's getBackgroundColor()
getBackgroundColor(cell) ==
    IF cell.has_cursor THEN ThemeCursor
    ELSE IF cell.reverse THEN resolveColor(cell.fg_color, FALSE)
    ELSE resolveColor(cell.bg_color, TRUE)

\* TerminalCell's dynamicStyle
dynamicStyle(cell) ==
    [color |-> getForegroundColor(cell), backgroundColor |-> getBackgroundColor(cell)]

\* the descriptors of drawn cells: absent, Default, in and out of the theme,
\* the cube, the gray ramp and a direct colour
CellColors ==
    {NoColor, Default, Indexed(1), Indexed(ThemeSize), Palette(1), Palette(100),
     Palette(240), RgbColor(1, 2, 3)}

DrawnCells ==
    [fg_color : CellColors, bg_color : CellColors, reverse : BOOLEAN,
     has_cursor : BOOLEAN]

\* the component renders the cell
RenderCell ==
    /\ rendered' = dynamicStyle(drawn)
    /\ UNCHANGED <<drawn, tvars, gvars, ivars, uvars, cvars>>

RNext == RenderCell

(***************************************************************************)
(* Specifications                                                          *)
(***************************************************************************)
\* the transport, with the grid store left alone
\* no frame from the server
IInit == inbox = <<>> /\ delivered = 0

\* no text submitted
UInit == submitted = <<>>

\* resolveColor not called
CInit == color = Default /\ resolved = NotResolved

\* no cell drawn
RInit ==
    /\ drawn = [fg_color |-> NoColor, bg_color |-> NoColor, reverse |-> FALSE,
                has_cursor |-> FALSE]
    /\ rendered = NotRendered

Init == cfg \in Configs /\ TInit /\ GInit /\ IInit /\ UInit /\ CInit /\ RInit

Spec == Init /\ [][TNext]_vars

\* The event loop runs every pending timer callback, and a socket that is
\* connecting or closing gets its open or close event.
SocketSettles(s) ==
    /\ readyState[s] \in {"CONNECTING", "CLOSING"}
    /\ \/ SocketOpen(s)
       \/ \E code \in CloseCodes, jitter \in JitterValues : SocketClose(s, code, jitter)

Fairness ==
    /\ WF_vars(\E k \in 1..Len(timers) : TimerFire(k))
    /\ \A s \in Sockets : WF_vars(SocketSettles(s))

FairInit == cfg \in Configs /\ TInit /\ GInit /\ IInit /\ UInit /\ CInit /\ RInit

FairSpec == FairInit /\ [][TNext]_vars /\ Fairness

\* the transport under the configuration of the backoff example
BackoffInit == cfg = BackoffConfig /\ TInit /\ GInit /\ IInit /\ UInit /\ CInit /\ RInit

BackoffSpec == BackoffInit /\ [][TNext]_vars

\* the grid store, with the transport left as mounted
GridInit == cfg = PairConfig /\ TInit /\ GInit /\ IInit /\ UInit /\ CInit /\ RInit

GridSpec == GridInit /\ [][GNext]_vars

\* the grid store with every operation that touches the cell map
StoreInit == cfg = PairConfig /\ TInit /\ GInit /\ IInit /\ UInit /\ CInit /\ RInit

StoreSpec == StoreInit /\ [][SNext]_vars

\* the transport receiving the frames the server sends
MessageInit ==
    /\ cfg = SingleConfig /\ TInit /\ GInit
    /\ inbox \in SeqUpTo(InboundFrames, MaxInbound) /\ delivered = 0
    /\ UInit /\ CInit /\ RInit

MessageSpec == MessageInit /\ [][MNext]_vars

\* the transport with text submitted through the input field
InputInit == cfg = SingleConfig /\ TInit /\ GInit /\ IInit /\ UInit /\ CInit /\ RInit

InputSpec == InputInit /\ [][INext]_vars

\* resolveColor applied to the colour of a cell
ColorInit ==
    /\ cfg = SingleConfig /\ TInit /\ GInit /\ IInit /\ UInit /\ RInit
    /\ color \in Colors /\ resolved = NotResolved

ColorSpec == ColorInit /\ [][CNext]_vars

\* the cell component drawing a cell
RenderInit ==
    /\ cfg = SingleConfig /\ TInit /\ GInit /\ IInit /\ UInit /\ CInit
    /\ drawn \in DrawnCells /\ rendered = NotRendered

RenderSpec == RenderInit /\ [][RNext]_vars

(***************************************************************************)
(* Claims about the transport, its frames and the text input                *)
(***************************************************************************)
\* a step that schedules a reconnect timer
Scheduled == Len(timers') > Len(timers)

\* a step that creates a socket
NewAttempt ==
    \E s \in Sockets : readyState[s] # "CONNECTING" /\ readyState'[s] = "CONNECTING"

\* a step that handles the close event of a socket
CloseHandled ==
    \E s \in Sockets : readyState[s] \in Live /\ readyState'[s] \in {"CLOSED", "NONE"}

\* a step that handles the open event of socket s
OpenHandled(s) == readyState[s] = "CONNECTING" /\ readyState'[s] = "OPEN"

\* the connection is open: the held socket exists and is OPEN
ConnectionOpen == socketRef # 0 /\ readyState[socketRef] = "OPEN"

\* C1: from close() until reconnect() no step schedules a reconnect timer or
\* creates a socket, whatever close events are delivered in between.
C1_NoReconnectAfterClose ==
    [][(closeCalled /\ closeCalled') => (~Scheduled /\ ~NewAttempt)]_vars

\* close() was called and an abnormal close event was handled afterwards
C1_Witness ==
    /\ closeCalled
    /\ lastCloseCode = ABNORMAL_CLOSE
    /\ timers = <<>>
    /\ \A s \in Sockets : readyState[s] \notin Live

\* C2: with maxReconnectAttempts=3, baseDelay=1000, backoffFactor=2 and
\* maxDelay=5000, the timer scheduled for attempt index k has a delay in
\* [1000,2000) for k=0, [2000,3000) for k=1 and [4000,5000) for k=2, and no
\* timer is scheduled for an index k >= 3.
C2_BackoffDelays ==
    [][Scheduled =>
          LET k == reconnectAttemptRef
              d == timers'[Len(timers')]
          IN /\ k \in 0..2
             /\ reconnectAttemptRef' = k + 1
             /\ k = 0 => d \in 1000..1999
             /\ k = 1 => d \in 2000..2999
             /\ k = 2 => d \in 4000..4999]_vars

\* the socket created by the third attempt closed abnormally before it
\* opened, and nothing is scheduled
C2_Witness ==
    /\ cfg = BackoffConfig
    /\ reconnectAttemptRef = 3
    /\ lastCloseCode = ABNORMAL_CLOSE
    /\ socketRef # 0 /\ readyState[socketRef] = "CLOSED" /\ opened[socketRef] = 0
    /\ timers = <<>>

\* C3: a frame passed to send() while the connection is not open changes no
\* socket's traffic and is never transmitted on any socket later on; a frame
\* passed to send() while the connection is open is appended to the traffic
\* of the held socket in the same step.
C3_SendDropsOrTransmits ==
    /\ [](\A n \in dropped : \A s \in Sockets : \A i \in 1..Len(wire[s]) :
              wire[s][i] # InputFrame(n))
    /\ [][nextFrame' # nextFrame =>
              IF ConnectionOpen
              THEN /\ wire' = [wire EXCEPT ![socketRef] = Append(@, InputFrame(nextFrame))]
                   /\ dropped' = dropped
              ELSE /\ wire' = wire
                   /\ dropped' = dropped \cup {nextFrame}]_vars

\* a frame was dropped and the connection is open again with traffic on it
C3_Witness ==
    /\ dropped # {}
    /\ ConnectionOpen
    /\ wire[socketRef] # <<>>

\* the counter has reached maxReconnectAttempts and an abnormal close was
\* handled without scheduling
Exhausted ==
    /\ reconnectAttemptRef = cfg.maxReconnectAttempts
    /\ lastCloseCode = ABNORMAL_CLOSE
    /\ ~isConnected
    /\ ~isReconnecting

\* C9: the counter is incremented by the step that schedules a timer and a
\* timer is scheduled only while the counter is below maxReconnectAttempts;
\* an abnormal close handled when the counter equals maxReconnectAttempts
\* schedules nothing and leaves the transport not connected and not
\* reconnecting; from that state only reconnect() (which resets the counter)
\* creates a socket.
C9_Exhaustion ==
    [][/\ Scheduled =>
             /\ reconnectAttemptRef < cfg.maxReconnectAttempts
             /\ reconnectAttemptRef' = reconnectAttemptRef + 1
       /\ (/\ reconnectAttemptRef = cfg.maxReconnectAttempts
           /\ CloseHandled
           /\ lastCloseCode' = ABNORMAL_CLOSE) =>
             (~Scheduled /\ ~isConnected' /\ ~isReconnecting')
       /\ (Exhausted /\ NewAttempt) => reconnectAttemptRef' = 0]_vars

\* C10: the step that handles a socket's open event leaves the transport
\* connected and not reconnecting with the counter at 0, no reconnect timer
\* and no countdown interval pending, and onOpen invoked once for the socket.
C10_OpenHandler ==
    [][\A s \in Sockets : OpenHandled(s) =>
          /\ isConnected' /\ ~isReconnecting'
          /\ reconnectAttemptRef' = 0 /\ reconnectAttempt' = 0
          /\ timers' = <<>>
          /\ intervals' = <<>>
          /\ opened'[s] = 1]_vars

\* C11: the step that records a transport error in state.error schedules no
\* timer, creates no socket and leaves the attempt counter, the reconnect
\* flag, the connected and reconnecting flags, the sockets and the timers as
\* they were; a timer is scheduled only by the handling of a close event
\* whose code is not the clean one.
C11_ErrorOnlyRecords ==
    [][/\ (~error /\ error') =>
             /\ ~Scheduled /\ ~NewAttempt
             /\ UNCHANGED <<reconnectAttemptRef, shouldReconnectRef, isConnected,
                            isReconnecting, timers, reconnectTimeoutRef,
                            readyState, socketRef>>
       /\ Scheduled => (CloseHandled /\ lastCloseCode' # CLEAN_CLOSE)]_vars

\* an error was recorded after the connection opened, and it is still open
C11_Witness ==
    /\ error
    /\ ConnectionOpen /\ isConnected
    /\ timers = <<>>
    /\ reconnectAttemptRef = 0

\* the sockets that are connecting or open and have not had close() called
Unclosed == {s \in Sockets : readyState[s] \in {"CONNECTING", "OPEN"}}

\* C12: in every reachable state at most one socket is connecting or open
\* without close() having been called on it, and a step that creates a socket
\* leaves the previously held socket closing, closed or gone.
C12_OneLiveSocket ==
    /\ [](Cardinality(Unclosed) <= 1)
    /\ [][(NewAttempt /\ socketRef # 0 /\ socketRef' # socketRef) =>
              readyState'[socketRef] \notin {"CONNECTING", "OPEN"}]_vars

\* a replaced socket is still closing while the new one is connecting or open
C12_Witness ==
    /\ socketRef # 0 /\ socketRef \in Unclosed
    /\ \E s \in Sockets : s # socketRef /\ readyState[s] = "CLOSING"

\* C13: a call of reconnect(), in whatever state, leaves no reconnect timer
\* pending (so none scheduled before the call can fire afterwards), sets the
\* attempt counter to 0, enables the reconnect flag and creates a socket.
C13_ReconnectCancels ==
    [][Reconnect =>
          /\ timers' = <<>>
          /\ reconnectAttemptRef' = 0
          /\ shouldReconnectRef'
          /\ NewAttempt]_vars

\* a step that handles a close event whose code is the clean one
CleanCloseHandled == CloseHandled /\ lastCloseCode' = CLEAN_CLOSE

\* C15: a close with code 1000 schedules no timer, whatever the counter and
\* the reconnect flag are; when the open connection receives a clean close the
\* transport is left not connected and not reconnecting with no timer pending;
\* a timer is scheduled only by a close whose code is not 1000, while the
\* reconnect flag is enabled and the counter is below maxReconnectAttempts.
C15_CleanCloseIsFinal ==
    [][/\ CleanCloseHandled => ~Scheduled
       /\ (CleanCloseHandled /\ ConnectionOpen /\ readyState'[socketRef] = "CLOSED") =>
             (~isConnected' /\ ~isReconnecting' /\ timers' = <<>>)
       /\ Scheduled =>
             /\ CloseHandled /\ lastCloseCode' # CLEAN_CLOSE
             /\ shouldReconnectRef
             /\ reconnectAttemptRef < cfg.maxReconnectAttempts]_vars

\* the first frame transmitted on socket s is request_keyframe
RequestedFirst(s) == wire[s] # <<>> /\ wire[s][1] = RequestKeyframe

\* C14 (under MessageSpec): the step that handles a socket's open event
\* transmits request_keyframe on that socket as its first frame; every socket
\* that has opened has request_keyframe as its first frame, in particular
\* every socket on which a frame of the server is handed to onmessage.
C14_RequestKeyframeOnOpen ==
    /\ [][\A s \in Sockets : OpenHandled(s) => wire'[s] = <<RequestKeyframe>>]_vars
    /\ [](\A s \in Sockets : (opened[s] >= 1 /\ readyState[s] # "NONE") => RequestedFirst(s))
    /\ [][delivered' = delivered + 1 =>
              \A s \in Sockets :
                  (opened[s] >= 1 /\ readyState[s] \in {"OPEN", "CLOSING"})
                      => RequestedFirst(s)]_vars

\* after an abnormal close the transport reconnected by itself, the new
\* socket opened and a frame of the server was applied
C14_Witness ==
    /\ lastCloseCode = ABNORMAL_CLOSE
    /\ ConnectionOpen /\ RequestedFirst(socketRef)
    /\ delivered >= 1

\* a step that hands the next frame of the server to onmessage
Delivery == delivered' = delivered + 1

\* C20 (under MessageSpec): the delivery of a frame that fails to decode
\* leaves the grid store (size, cells, cursor, visibility) and the whole
\* transport state unchanged; frames are consumed one by one in delivery
\* order, and a frame that decodes has its effect on the store whether or
\* not a malformed frame was delivered before it.
C20_MalformedFrameDiscarded ==
    [][Delivery =>
          LET frame == inbox[delivered + 1]
          IN /\ inbox' = inbox
             /\ frame.type = "malformed" =>
                    /\ UNCHANGED <<size, cells, cursor, cursor_visible>>
                    /\ UNCHANGED tvars
             /\ (frame.type = "grid_update" /\ "Keyframe" \in DOMAIN frame) =>
                    /\ size' = frame.Keyframe.size
                    /\ cursor' = frame.Keyframe.cursor
                    /\ cursor_visible' = frame.Keyframe.cursor_visible
                    /\ <<0, 0>> \in DOMAIN cells' /\ cells'[<<0, 0>>].char = "a"
             /\ (frame.type = "grid_update" /\ "Diff" \in DOMAIN frame) =>
                    /\ <<0, 1>> \in DOMAIN cells' /\ cells'[<<0, 1>>].char = " "
                    /\ UNCHANGED <<size, cursor, cursor_visible>>
             /\ frame.type = "pty_size" =>
                    /\ size' = [rows |-> frame.rows, cols |-> frame.cols]
                    /\ UNCHANGED <<cells, cursor, cursor_visible>>]_vars

\* a malformed frame was delivered, then a Keyframe, and the Keyframe was
\* applied on the connection that is still open
C20_Witness ==
    /\ delivered = 2
    /\ inbox = <<Malformed, KeyframeFrame(SampleKeyframe)>>
    /\ size = SampleKeyframe.size /\ cursor = SampleKeyframe.cursor
    /\ <<0, 0>> \in DOMAIN cells
    /\ ConnectionOpen /\ isConnected

\* the step delivers a pty_size frame
PtySizeDelivery == Delivery /\ inbox[delivered + 1].type = "pty_size"

\* C30 (under MessageSpec): every step of the transport's lifecycle (open,
\* close, error, the scheduling and the firing of a timer, a countdown
\* tick, send(), close() and reconnect()) leaves the grid store (size,
\* cells, cursor, visibility) unchanged; the delivery of a pty_size frame
\* sets the stored size to the frame's rows and cols and leaves cells,
\* cursor and visibility unchanged.
C30_LifecycleLeavesGrid ==
    [][/\ TNext => UNCHANGED <<size, cells, cursor, cursor_visible>>
       /\ PtySizeDelivery =>
              /\ size' = [rows |-> inbox[delivered + 1].rows,
                          cols |-> inbox[delivered + 1].cols]
              /\ UNCHANGED <<cells, cursor, cursor_visible>>]_vars

\* a Diff and a pty_size frame were delivered, the connection was then lost
\* and a reconnect timer is pending: the grid is as the two frames left it
C30_Witness ==
    /\ inbox = <<DiffFrame(SampleDiff), PtySizeFrame([rows |-> 2, cols |-> 2])>>
    /\ delivered = 2
    /\ size = [rows |-> 2, cols |-> 2] /\ <<0, 1>> \in DOMAIN cells
    /\ isReconnecting /\ timers # <<>> /\ lastCloseCode = ABNORMAL_CLOSE

\* the frames a step appended to the traffic of socket s
Appended(s) == SubSeq(wire'[s], Len(wire[s]) + 1, Len(wire'[s]))

StaleClose ==
    \E s \in Sockets \ {socketRef}, code \in CloseCodes, jitter \in JitterValues :
        SocketClose(s, code, jitter)

\* C24: the handling of the close event of a socket that is not the held one
\* schedules no reconnect timer, leaves the attempt counter as it was and
\* does not change the connected flag.
C24_StaleCloseIgnored ==
    [][StaleClose =>
          /\ ~Scheduled
          /\ reconnectAttemptRef' = reconnectAttemptRef
          /\ isConnected' = isConnected]_vars

\* C25: in every reachable state isConnected is true exactly when the held
\* socket has opened and has neither closed nor had close() called on it, and
\* isConnected and isReconnecting are not both true.
C25_ConnectedFlag ==
    /\ isConnected <=> ConnectionOpen
    /\ ~(isConnected /\ isReconnecting)

\* C26: in every reachable state at most one reconnect timer is pending, and
\* a pending timer is the one reconnectTimeoutRef names (the one that
\* clearReconnectTimer cancels).
C26_SingleTimer ==
    /\ Len(timers) <= 1
    /\ timers # <<>> => (reconnectTimeoutRef = 1 /\ TimersCleared(timers, reconnectTimeoutRef) = <<>>)

\* a connection attempt is in progress: the held socket is connecting
AttemptInProgress == socketRef # 0 /\ readyState[socketRef] = "CONNECTING"

\* while isReconnecting is true a reconnect timer is pending or a connection
\* attempt is in progress
ReconnectingHasCause == isReconnecting => (timers # <<>> \/ AttemptInProgress)

\* C27 (under FairSpec): whenever isReconnecting is true a reconnect timer is
\* pending or a connection attempt is in progress; when timers fire and
\* every connecting or closing socket gets its open or close event, a
\* transport that reports isReconnecting eventually is open, exhausted or
\* closed, unless reconnect() is called again and again without end.
C27_ReconnectingSettles ==
    /\ []ReconnectingHasCause
    /\ \/ []<><<Reconnect>>_vars
       \/ isReconnecting ~> (ConnectionOpen \/ Exhausted \/ closeCalled)

\* the transport reports isReconnecting while the attempt created by the
\* fired timer is in progress
C27_Witness ==
    /\ isReconnecting /\ timers = <<>> /\ AttemptInProgress
    /\ lastCloseCode = ABNORMAL_CLOSE

(***************************************************************************)
(* Claims about colours (checked under ColorSpec)                          *)
(***************************************************************************)
\* the numbers of the text rgb(r, g, b)
Components(v) == {v[i] : i \in 2..Len(v)}

\* C16: for a Palette(n) descriptor with 16 <= n < 232 and m = n-16,
\* resolveColor returns rgb(floor(m/36)*51, floor((m mod 36)/6)*51,
\* (m mod 6)*51); with 232 <= n <= 255 it returns the gray of level
\* floor((n-232)*255/23); Palette(16) is rgb(0,0,0), Palette(231) is
\* rgb(255,255,255), Palette(232) is gray 0, Palette(255) is gray 255, and
\* every component for n in 16..255 is in 0..255.
C16_PaletteColors ==
    (resolved # NotResolved /\ color.variant = "Palette" /\ color.index \in 16..255) =>
        LET n == color.index
            m == n - 16
            L == ((n - 232) * 255) \div 23
        IN /\ n < 232 =>
                 resolved = rgb((m \div 36) * 51, ((m % 36) \div 6) * 51, (m % 6) * 51)
           /\ n >= 232 => resolved = rgb(L, L, L)
           /\ n = 16 => resolved = rgb(0, 0, 0)
           /\ n = 231 => resolved = rgb(255, 255, 255)
           /\ n = 232 => resolved = rgb(0, 0, 0)
           /\ n = 255 => resolved = rgb(255, 255, 255)
           /\ resolved[1] = "rgb" /\ Components(resolved) \subseteq 0..255

\* the last level of the gray ramp was resolved
C16_Witness == color = Palette(255) /\ resolved = rgb(255, 255, 255)

(***************************************************************************)
(* Claims about cell rendering (checked under RenderSpec)                  *)
(***************************************************************************)
\* the cell with reverse cleared
Unreversed(cell) == [cell EXCEPT !.reverse = FALSE]

\* the cell with reverse cleared and its descriptors exchanged
DescriptorsSwapped(cell) ==
    [cell EXCEPT !.reverse = FALSE, !.fg_color = cell.bg_color,
                 !.bg_color = cell.fg_color]

\* the descriptor resolves to the same colour as foreground and as background
RoleFree(c) ==
    \/ c.variant \in {"Palette", "Rgb"}
    \/ c.variant = "Indexed" /\ c.index \in 0..15

\* C21 as stated: a drawn cell with reverse set and no cursor overlay has the
\* style of the same cell with reverse cleared and its fg and bg descriptors
\* exchanged, for every combination of descriptors.
C21_SwappedBeforeResolution ==
    (rendered # NotRendered /\ drawn.reverse /\ ~drawn.has_cursor) =>
        rendered = dynamicStyle(DescriptorsSwapped(drawn))

\* C21 amended: a drawn cell with reverse set and no cursor overlay has the
\* rendered colours of the same cell with reverse cleared, exchanged; with
\* both descriptors Default or absent that is theme.background on
\* theme.foreground; with descriptors that resolve alike in both roles it is
\* the style of the cell with its descriptors exchanged.
C21_SwappedAfterResolution ==
    (rendered # NotRendered /\ drawn.reverse /\ ~drawn.has_cursor) =>
        /\ rendered.color = dynamicStyle(Unreversed(drawn)).backgroundColor
        /\ rendered.backgroundColor = dynamicStyle(Unreversed(drawn)).color
        /\ ({drawn.fg_color, drawn.bg_color} \subseteq {NoColor, Default}) =>
               rendered = [color |-> <<"background">>, backgroundColor |-> <<"foreground">>]
        /\ (RoleFree(drawn.fg_color) /\ RoleFree(drawn.bg_color)) =>
               rendered = dynamicStyle(DescriptorsSwapped(drawn))

\* a reversed cell with default colours was drawn in reverse video
C21_Witness ==
    /\ drawn = [fg_color |-> Default, bg_color |-> Default, reverse |-> TRUE,
                has_cursor |-> FALSE]
    /\ rendered = [color |-> ThemeBackground, backgroundColor |-> ThemeForeground]

(***************************************************************************)
(* Claims about the grid store (checked under GridSpec and StoreSpec)      *)
(***************************************************************************)
\* the keys whose cell carries the cursor overlay
Overlays(map) == {k \in DOMAIN map : map[k].has_cursor}

\* C4: in every state reached by applying grid updates, at most one cell has
\* the cursor overlay when cursor_visible is true, and none has it when
\* cursor_visible is false.
C4_SingleOverlay ==
    IF cursor_visible THEN Cardinality(Overlays(cells)) <= 1
    ELSE Overlays(cells) = {}

\* size and cells agree, an absent key read as a blank cell
GridEqual(a, b) ==
    /\ a.size = b.size
    /\ \A k \in Coords : CellAt(a.cells, k) = CellAt(b.cells, k)

\* C5: after a Keyframe followed by Diffs that stay on the coordinates the
\* Keyframe established, the store's grid equals the grid obtained by
\* applying the server's final snapshot as one Keyframe to a fresh store.
C5_IncrementalEqualsSnapshot ==
    snap.valid => GridEqual(Store, handleGridUpdate(InitialStore, KeyframeOf(snap)))

\* C6: applying any Keyframe K to the store in its current state gives the
\* same grid as applying K to an empty store.
C6_KeyframeAuthoritative ==
    \A K \in KeyframeMessages :
        GridEqual(handleGridUpdate(Store, K), handleGridUpdate(InitialStore, K))

\* C7: when an update moves the cursor to a different position while the
\* visibility is and stays true, afterwards exactly one cell has the overlay,
\* it is the cell at the new position, and the stored cursor is that position.
C7_CursorMove ==
    [][(cursor' # cursor /\ cursor_visible /\ cursor_visible')
          => Overlays(cells') = {cursor'}]_vars

\* C8: an update with cursor_visible=false that does not move the cursor
\* clears the overlay at the cursor cell; a following update with
\* cursor_visible=true restores the overlay on the cell at the same
\* coordinates, whether or not the map held a cell there.
C8_HideThenShow ==
    [][/\ (cursor_visible /\ ~cursor_visible' /\ cursor' = cursor)
            => ~CellAt(cells', cursor).has_cursor
       /\ (~cursor_visible /\ cursor_visible' /\ cursor' = cursor)
            => (cursor \in DOMAIN cells' /\ cells'[cursor].has_cursor)]_vars

\* the fields a wire cell can carry, and the value of a field it omits
StyleDefaults ==
    [char |-> " ", fg_color |-> "null", bg_color |-> "null", bold |-> FALSE,
     italic |-> FALSE, underline |-> FALSE, reverse |-> FALSE]

\* the partial cell of the last entry of the list for coordinate k
LastPartial(list, k) ==
    LET at(i) == <<list[i][1], list[i][2]>>
        last == CHOOSE i \in 1..Len(list) :
                    at(i) = k /\ \A j \in (i + 1)..Len(list) : at(j) # k
    IN list[last][3]

\* every coordinate the cells of update m mention holds, after m, the fields
\* of its entry, an omitted field at its default
ReplacedWholesale(m) ==
    LET after == handleGridUpdate(Store, m).cells
    IN \A k \in Touched(m.cells) :
           /\ k \in DOMAIN after
           /\ \A f \in DOMAIN StyleDefaults :
                  after[k][f] = IF f \in DOMAIN LastPartial(m.cells, k)
                                THEN LastPartial(m.cells, k)[f]
                                ELSE StyleDefaults[f]

\* C17: applied to the store in any reachable state, each (row, col, partial)
\* entry of a Keyframe or Diff replaces the stored cell wholesale: afterwards
\* every field of the cell has the value partial gives, or the default when
\* partial omits it, whatever cell was stored at the coordinate before.
C17_WholeCellReplacement ==
    /\ \A m \in KeyframeMessages : ReplacedWholesale(m)
    /\ \A m \in DiffMessages : ReplacedWholesale(m)

\* the store holds non-default cells, one of them under the cursor overlay,
\* that an entry of a further update replaces
C17_Witness ==
    /\ {<<0, 0>>, <<0, 1>>} \subseteq DOMAIN cells
    /\ cells[<<0, 0>>].char = "a" /\ cells[<<0, 0>>].has_cursor
    /\ cells[<<0, 1>>].char = "a" /\ ~cells[<<0, 1>>].has_cursor

\* the keys of the map survive the operation that leads to store st
KeysKept(st) == DOMAIN cells \subseteq DOMAIN st.cells

\* C18 (under StoreSpec): applied to the store in any reachable state, no
\* Keyframe or Diff (whatever size it carries, a smaller one included) and no
\* pty_size removes a key of the cell map; a step that empties a non-empty
\* map is a clearCells call, and no step removes a key otherwise.
C18_KeysNeverRemoved ==
    /\ [](/\ \A m \in KeyframeMessages : \A sz \in Sizes \cup {SmallSize} :
                KeysKept(handleGridUpdate(Store, [m EXCEPT !.size = sz]))
          /\ \A m \in DiffMessages : KeysKept(handleGridUpdate(Store, m))
          /\ \A sz \in Sizes \cup {SmallSize} :
                KeysKept(updateSize(Store, sz.rows, sz.cols)))
    /\ [][~(DOMAIN cells \subseteq DOMAIN cells') => ClearCells]_vars

\* the size shrank to one cell and the map still holds cells outside it
C18_Witness ==
    /\ size = SmallSize
    /\ {<<0, 1>>, <<1, 1>>} \subseteq DOMAIN cells

\* C22: a step that changes both the stored cursor position (from p to q) and
\* the stored visibility leaves no overlay on the cell at p, and leaves the
\* overlay on the cell at q exactly when the new visibility is true.
C22_MoveAndToggle ==
    [][(cursor' # cursor /\ cursor_visible' # cursor_visible) =>
          /\ ~CellAt(cells', cursor).has_cursor
          /\ CellAt(cells', cursor').has_cursor = cursor_visible']_vars

\* update m reports a change exactly when it changes the store
ReportsExactly(m) == hasChanges(Store, m) <=> handleGridUpdate(Store, m) # Store

\* C23: applied to the store in any reachable state, a Keyframe or Diff
\* reports a change (returns a non-empty update) exactly when the size, the
\* cell contents, the cursor or the visibility after it differ from those
\* before it.
C23_ReportsChangeExactly ==
    /\ \A m \in KeyframeMessages : ReportsExactly(m)
    /\ \A m \in DiffMessages : ReportsExactly(m)

\* C28: after any sequence of updates, if cursor_visible is true and the map
\* holds a cell at the stored cursor, that cell carries the overlay; a
\* Keyframe or Diff that rewrites the cell at the cursor without moving the
\* cursor leaves the overlay on it.
C28_CursorCellHasOverlay ==
    (cursor_visible /\ cursor \in DOMAIN cells) => cells[cursor].has_cursor

\* applying m to the stored grid twice leaves what applying it once leaves
AppliedTwiceAsOnce(m) ==
    handleGridUpdate(handleGridUpdate(Store, m), m) = handleGridUpdate(Store, m)

\* C29: handleGridUpdate is idempotent: for every store state and every
\* Keyframe or Diff, applying the message twice in succession yields the
\* store (size, cells with their overlay flags, cursor, visibility) that
\* applying it once yields.
C29_Idempotent ==
    /\ \A m \in KeyframeMessages : AppliedTwiceAsOnce(m)
    /\ \A m \in DiffMessages : AppliedTwiceAsOnce(m)

====
